---- MODULE Spec2Model ----
(***************************************************************************)
(* Model of the spec formatting tool (src/spec_tool_gui.py): the batch     *)
(* worker run_batch, the extractor extract_master_to_markdown, the         *)
(* rebuilder rebuild_from_markdown and load_config.                        *)
(*                                                                         *)
(* Text is modelled character by character: a Python str is a sequence of  *)
(* one-character strings, and str.strip, str.startswith, str.upper,        *)
(* str.replace, str.find, the regular expressions, "\n".join and           *)
(* readlines are computed as Python computes them.                         *)
(***************************************************************************)
EXTENDS Integers, Sequences, FiniteSets, TLC

(***************************************************************************)
(* Bounds of the model.                                                    *)
(***************************************************************************)
\* number of fragments concatenated into one paragraph text (SpecText)
MaxFrags == 3
\* number of paragraphs of one source document (Spec)
MaxParas == 2
\* number of .docx files of one batch
MaxFiles == 2
\* number of entries of a configured list_levels sequence
MaxLevels == 2
\* number of nodes of the body of a template (SpecClear)
MaxNodes == 3

(***************************************************************************)
(* Characters and Python's str methods.                                    *)
(***************************************************************************)
SP == " "
NL == "\n"
TAB == "\t"

\* str.strip() / str.rstrip() / the regex class \s : whitespace
WhiteSpace == {SP, NL, TAB}
Digits == {"0", "1", "2", "3", "4", "5", "6", "7", "8", "9"}
LowerLetters == <<"a", "b", "c", "d", "e", "f", "g", "h", "i", "j", "k", "l", "m",
                  "n", "o", "p", "q", "r", "s", "t", "u", "v", "w", "x", "y", "z">>
UpperLetters == <<"A", "B", "C", "D", "E", "F", "G", "H", "I", "J", "K", "L", "M",
                  "N", "O", "P", "Q", "R", "S", "T", "U", "V", "W", "X", "Y", "Z">>
LowerSet == {LowerLetters[k] : k \in 1..26}
UpperSet == {UpperLetters[k] : k \in 1..26}

IsSpace(c) == c \in WhiteSpace
IsDigit(c) == c \in Digits
IsLower(c) == c \in LowerSet
IsUpper(c) == c \in UpperSet
IsAlnum(c) == IsDigit(c) \/ IsLower(c) \/ IsUpper(c)

\* str.upper() on one character
UpperChar(c) ==
    IF c \in LowerSet
    THEN UpperLetters[CHOOSE k \in 1..26 : LowerLetters[k] = c]
    ELSE c

\* str.upper()
Upper(s) == [k \in 1..Len(s) |-> UpperChar(s[k])]

\* s[k:] of Python with k counted from 0
From(s, k) == SubSeq(s, k + 1, Len(s))

\* str.startswith(p)
StartsWith(s, p) == Len(s) >= Len(p) /\ SubSeq(s, 1, Len(p)) = p

\* c in s
Contains(s, c) == \E k \in 1..Len(s) : s[k] = c

\* number of leading characters of s, from 0-based position k, that satisfy
\* the class test (the greedy run a regex X+ consumes)
RECURSIVE SpaceRun(_, _)
SpaceRun(s, k) ==
    IF k < Len(s) /\ IsSpace(s[k + 1]) THEN 1 + SpaceRun(s, k + 1) ELSE 0

RECURSIVE DigitRun(_, _)
DigitRun(s, k) ==
    IF k < Len(s) /\ IsDigit(s[k + 1]) THEN 1 + DigitRun(s, k + 1) ELSE 0

RECURSIVE AlnumRun(_, _)
AlnumRun(s, k) ==
    IF k < Len(s) /\ IsAlnum(s[k + 1]) THEN 1 + AlnumRun(s, k + 1) ELSE 0

\* number of trailing whitespace characters of s
RECURSIVE TrailingSpace(_)
TrailingSpace(s) ==
    IF Len(s) > 0 /\ IsSpace(s[Len(s)])
    THEN 1 + TrailingSpace(SubSeq(s, 1, Len(s) - 1))
    ELSE 0

\* str.rstrip()
RStrip(s) == SubSeq(s, 1, Len(s) - TrailingSpace(s))

\* str.strip()
Strip(s) == LET r == RStrip(s) IN From(r, SpaceRun(r, 0))

\* str.find(c) for a one-character c: 0-based index of the first
\* occurrence, -1 when there is none
Find(s, c) ==
    IF Contains(s, c)
    THEN (CHOOSE k \in 1..Len(s) : s[k] = c /\ \A j \in 1..(k - 1) : s[j] # c) - 1
    ELSE -1

\* str.replace(old, ""): every non-overlapping occurrence of old, scanning
\* from the left, is removed
RECURSIVE Remove(_, _)
Remove(s, old) ==
    IF s = <<>> THEN <<>>
    ELSE IF StartsWith(s, old) THEN Remove(From(s, Len(old)), old)
    ELSE <<s[1]>> \o Remove(Tail(s), old)

\* "\n".join(lines)
RECURSIVE Join(_)
Join(lines) ==
    IF lines = <<>> THEN <<>>
    ELSE IF Len(lines) = 1 THEN lines[1]
    ELSE lines[1] \o <<NL>> \o Join(Tail(lines))

\* f.readlines(): the content cut after every "\n"; each line keeps its
\* "\n", an empty content has no line
RECURSIVE ReadLines(_)
ReadLines(content) ==
    IF content = <<>> THEN <<>>
    ELSE LET k == Find(content, NL)
         IN IF k < 0 THEN <<content>>
            ELSE <<SubSeq(content, 1, k + 1)>> \o ReadLines(From(content, k + 1))

(***************************************************************************)
(* extract_master_to_markdown: the filter policy, the classification and   *)
(* the markup line of one paragraph.                                       *)
(***************************************************************************)
IGNORED_STYLES == {"Specifier Note", "Note", "Instruction", "Editing Instruction", "CMT"}

IGNORED_STARTS ==
    << <<"S", "e", "e", SP, "E", "d", "i", "t", "i", "n", "g", SP,
         "I", "n", "s", "t", "r", "u", "c", "t", "i", "o", "n">>,
       <<"A", "d", "j", "u", "s", "t", SP, "l", "i", "s", "t", SP, "b", "e", "l", "o", "w">>,
       <<"R", "e", "t", "a", "i", "n", SP>>,
       <<"D", "e", "l", "e", "t", "e", SP>>,
       <<"E", "d", "i", "t", SP>>,
       <<"V", "e", "r", "i", "f", "y", SP, "t", "h", "a", "t", SP,
         "S", "e", "c", "t", "i", "o", "n", SP, "t", "i", "t", "l", "e", "s">> >>

SECTION == <<"S", "E", "C", "T", "I", "O", "N">>
PART == <<"P", "A", "R", "T">>
END_OF_SECTION == <<"E", "N", "D", SP, "O", "F", SP, "S", "E", "C", "T", "I", "O", "N">>

\* the markers of the intermediate text
TitleMark == <<"#", SP>>
PartMark == <<"#", "#", SP>>
ArticleMark == <<"#", "#", "#", SP>>
ListMark == <<"-", SP>>

\* re.match(r'^\d+\.\d+\s', text)
MatchArticle(text) ==
    LET a == DigitRun(text, 0)
        b == DigitRun(text, a + 1)
    IN /\ a >= 1
       /\ Len(text) > a /\ text[a + 1] = "."
       /\ b >= 1
       /\ Len(text) > a + 1 + b /\ IsSpace(text[a + b + 2])

\* re.match(r'^[A-Z]\.\s', text)
MatchUpperDot(text) ==
    Len(text) >= 3 /\ IsUpper(text[1]) /\ text[2] = "." /\ IsSpace(text[3])

\* re.match(r'^\d+\.\s', text)
MatchDigitDot(text) ==
    LET a == DigitRun(text, 0)
    IN a >= 1 /\ Len(text) > a + 1 /\ text[a + 1] = "." /\ IsSpace(text[a + 2])

\* re.match(r'^[a-z]\.\s', text)
MatchLowerDot(text) ==
    Len(text) >= 3 /\ IsLower(text[1]) /\ text[2] = "." /\ IsSpace(text[3])

\* re.match(r'^\d+\)\s', text)
MatchDigitParen(text) ==
    LET a == DigitRun(text, 0)
    IN a >= 1 /\ Len(text) > a + 1 /\ text[a + 1] = ")" /\ IsSpace(text[a + 2])

\* re.match(r'^[a-z]\)\s', text)
MatchLowerParen(text) ==
    Len(text) >= 3 /\ IsLower(text[1]) /\ text[2] = ")" /\ IsSpace(text[3])

\* CHECK 2: the keyword loop over IGNORED_STARTS
IsInstruction(text) ==
    \E k \in 1..Len(IGNORED_STARTS) : StartsWith(text, IGNORED_STARTS[k])

\* Skipped without CHECK 1, the test of the paragraph's style
SkippedKeywordsOnly(para) ==
    LET text == Strip(para.text)
    IN text = <<>> \/ IsInstruction(text)

\* the paragraphs the loop passes over with `continue`: empty after
\* strip(), an ignored style, an instruction keyword
Skipped(para) ==
    LET text == Strip(para.text)
    IN text = <<>> \/ para.style \in IGNORED_STYLES \/ IsInstruction(text)

\* Classify whose PART test leaves out `and "-" in text`
ClassifyPartWithoutHyphen(text) ==
    IF StartsWith(Upper(text), SECTION) THEN [kind |-> "SectionTitle", depth |-> 0]
    ELSE IF StartsWith(Upper(text), PART) THEN [kind |-> "PartHeader", depth |-> 0]
    ELSE IF MatchArticle(text) THEN [kind |-> "ArticleHeader", depth |-> 0]
    ELSE IF MatchUpperDot(text) THEN [kind |-> "ListItem", depth |-> 0]
    ELSE IF MatchDigitDot(text) THEN [kind |-> "ListItem", depth |-> 1]
    ELSE IF MatchLowerDot(text) THEN [kind |-> "ListItem", depth |-> 2]
    ELSE IF MatchDigitParen(text) THEN [kind |-> "ListItem", depth |-> 3]
    ELSE IF MatchLowerParen(text) THEN [kind |-> "ListItem", depth |-> 4]
    ELSE [kind |-> "Body", depth |-> 0]

\* the if / elif chain "Regex detection for CSI Structure": the branch
\* taken for a text, as the kind of line it appends and, for a list item,
\* its depth
Classify(text) ==
    IF StartsWith(Upper(text), SECTION) THEN [kind |-> "SectionTitle", depth |-> 0]
    ELSE IF StartsWith(Upper(text), PART) /\ Contains(text, "-")
         THEN [kind |-> "PartHeader", depth |-> 0]
    ELSE IF MatchArticle(text) THEN [kind |-> "ArticleHeader", depth |-> 0]
    ELSE IF MatchUpperDot(text) THEN [kind |-> "ListItem", depth |-> 0]
    ELSE IF MatchDigitDot(text) THEN [kind |-> "ListItem", depth |-> 1]
    ELSE IF MatchLowerDot(text) THEN [kind |-> "ListItem", depth |-> 2]
    ELSE IF MatchDigitParen(text) THEN [kind |-> "ListItem", depth |-> 3]
    ELSE IF MatchLowerParen(text) THEN [kind |-> "ListItem", depth |-> 4]
    ELSE [kind |-> "Body", depth |-> 0]

\* "  " * n
RECURSIVE Spaces(_)
Spaces(n) == IF n = 0 THEN <<>> ELSE <<SP>> \o Spaces(n - 1)

\* the string md_lines.append receives for a text
MarkdownLine(text) ==
    LET c == Classify(text)
    IN CASE c.kind = "SectionTitle" -> TitleMark \o text
         [] c.kind = "PartHeader" -> <<NL>> \o PartMark \o text
         [] c.kind = "ArticleHeader" -> <<NL>> \o ArticleMark \o text
         [] c.kind = "ListItem" -> Spaces(2 * c.depth) \o ListMark \o text
         [] OTHER -> <<SP, SP>> \o text

\* the loop over doc.paragraphs: md_lines
RECURSIVE ExtractLines(_)
ExtractLines(paras) ==
    IF paras = <<>> THEN <<>>
    ELSE IF Skipped(Head(paras)) THEN ExtractLines(Tail(paras))
    ELSE <<MarkdownLine(Strip(Head(paras).text))>> \o ExtractLines(Tail(paras))

\* the content written to md_path
ExtractContent(paras) == Join(ExtractLines(paras))

(***************************************************************************)
(* Configuration: DEFAULT_CONFIG and load_config.  A value json.load       *)
(* returns is a dict, [type |-> "dict", items |-> a function on its keys], *)
(* or something else (a JSON array, string, number, null),                 *)
(* [type |-> "other"].                                                     *)
(***************************************************************************)
DEFAULT_CONFIG ==
    [type |-> "dict",
     items |-> [styles |-> [Title |-> "Heading 1", Part |-> "Heading 2",
                            Article |-> "Heading 3"],
                list_levels |-> <<"List Bullet", "List Bullet 2", "List Bullet 3">>,
                options |-> [strip_heading_numbers |-> TRUE,
                             strip_list_labels |-> TRUE]]]

\* the configuration file as load_config finds it: path is the entry of
\* the GUI ("" when left empty), exists and parses are what
\* os.path.exists and json.load find, value is what json.load returns
load_config(cfgfile) ==
    IF cfgfile.path # "" /\ cfgfile.exists
    THEN IF cfgfile.parses THEN cfgfile.value ELSE DEFAULT_CONFIG
    ELSE DEFAULT_CONFIG

\* dict.get(key, default)
DictGet(d, key, default) == IF key \in DOMAIN d THEN d[key] ELSE default

\* options.get(key) used as a condition: a missing key gives None
OptionSet(options, key) == key \in DOMAIN options /\ options[key]

(***************************************************************************)
(* rebuild_from_markdown: the helpers and the dispatch of one line.        *)
(***************************************************************************)
\* a paragraph of the output document: its text and the name of its style;
\* NoStyle is a paragraph that carries no style of its own
NoStyle == "(none)"
Paragraph(text, style) == [text |-> text, style |-> style]

\* doc.add_paragraph(text, style=style_name) of python-docx on a template
\* with the paragraph styles `styles`: the paragraph is appended and given
\* its text first, then the style is looked up by name, which raises
\* KeyError for an unknown name and leaves the paragraph appended unstyled
DocAddParagraph(styles, text, style_name) ==
    IF style_name \in styles
    THEN [raises |-> FALSE, added |-> <<Paragraph(text, style_name)>>]
    ELSE [raises |-> TRUE, added |-> <<Paragraph(text, NoStyle)>>]

\* add_safe_paragraph whose except branch adds nothing
AddParagraphNoFallback(styles, text, style_name) ==
    DocAddParagraph(styles, text, style_name).added

\* add_safe_paragraph(text, style_name): the paragraphs the body gains
add_safe_paragraph(styles, text, style_name) ==
    LET first == DocAddParagraph(styles, text, style_name)
    IN IF first.raises
       THEN first.added \o DocAddParagraph(styles, text, "Normal").added
       ELSE first.added

\* re.sub(r'^\d+\.\d+\s+', '', text)
SubHeadingNumber(text) ==
    LET a == DigitRun(text, 0)
        b == DigitRun(text, a + 1)
        w == SpaceRun(text, a + 1 + b)
    IN IF a >= 1 /\ Len(text) > a /\ text[a + 1] = "." /\ b >= 1 /\ w >= 1
       THEN From(text, a + 1 + b + w)
       ELSE text

\* re.sub(r'^[A-Za-z0-9]+[\.\)]\s+', '', text)
SubListLabel(text) ==
    LET a == AlnumRun(text, 0)
        w == SpaceRun(text, a + 1)
    IN IF a >= 1 /\ Len(text) > a /\ text[a + 1] \in {".", ")"} /\ w >= 1
       THEN From(text, a + 1 + w)
       ELSE text

\* clean_heading_label that strips whatever the option says
CleanHeadingAlways(options, text) == SubHeadingNumber(text)

clean_heading_label(options, text) ==
    IF OptionSet(options, "strip_heading_numbers") THEN SubHeadingNumber(text) ELSE text

clean_list_label(options, text) ==
    IF OptionSet(options, "strip_list_labels") THEN SubListLabel(text) ELSE text

\* LineBranch whose END OF SECTION test leaves out .upper()
LineBranchCaseSensitive(stripped_text) ==
    IF StartsWith(stripped_text, END_OF_SECTION) THEN "end"
    ELSE IF StartsWith(stripped_text, TitleMark) THEN "title"
    ELSE IF StartsWith(stripped_text, PartMark) THEN "part"
    ELSE IF StartsWith(stripped_text, ArticleMark) THEN "article"
    ELSE IF StartsWith(stripped_text, ListMark) THEN "list"
    ELSE "body"

\* the branch of the for loop a non-blank line takes
LineBranch(stripped_text) ==
    IF StartsWith(Upper(stripped_text), END_OF_SECTION) THEN "end"
    ELSE IF StartsWith(stripped_text, TitleMark) THEN "title"
    ELSE IF StartsWith(stripped_text, PartMark) THEN "part"
    ELSE IF StartsWith(stripped_text, ArticleMark) THEN "article"
    ELSE IF StartsWith(stripped_text, ListMark) THEN "list"
    ELSE "body"

\* indent_level = dash_index // 2
IndentLevel(raw_text) == Find(raw_text, "-") \div 2

\* ListStyle whose else branch takes the first entry, list_map[0]
ListStyleFirstEntry(list_map, indent_level) ==
    IF indent_level < Len(list_map)
    THEN [raises |-> FALSE, style |-> list_map[indent_level + 1]]
    ELSE IF Len(list_map) > 0
         THEN [raises |-> FALSE, style |-> list_map[1]]
         ELSE [raises |-> TRUE, style |-> NoStyle]

\* the list branch's choice of target_style; list_map[-1] of an empty list
\* raises IndexError
ListStyle(list_map, indent_level) ==
    IF indent_level < Len(list_map)
    THEN [raises |-> FALSE, style |-> list_map[indent_level + 1]]
    ELSE IF Len(list_map) > 0
         THEN [raises |-> FALSE, style |-> list_map[Len(list_map)]]
         ELSE [raises |-> TRUE, style |-> NoStyle]

\* style_map[key]: KeyError when the configured styles lack the key
StyleOf(style_map, key) ==
    IF key \in DOMAIN style_map
    THEN [raises |-> FALSE, style |-> style_map[key]]
    ELSE [raises |-> TRUE, style |-> NoStyle]

\* a title flag that a `## ` line sets too
FlagSetByPart(branch) == branch \in {"title", "part"}

\* the title flag after a line of the given branch
FlagAfter(branch) == branch = "title"

\* the text the branch hands to add_safe_paragraph
LineText(options, branch, stripped_text) ==
    CASE branch = "end" -> stripped_text
      [] branch = "title" -> Remove(stripped_text, TitleMark)
      [] branch = "part" -> Remove(stripped_text, PartMark)
      [] branch = "article" ->
            clean_heading_label(options, Remove(stripped_text, ArticleMark))
      [] branch = "list" -> clean_list_label(options, From(stripped_text, 2))
      [] OTHER -> stripped_text

\* LineStyle whose standard-text branch does not look at the title flag
LineStyleBodyNormal(style_map, list_map, branch, raw_text, flag) ==
    CASE branch = "end" -> StyleOf(style_map, "Title")
      [] branch = "title" -> StyleOf(style_map, "Title")
      [] branch = "part" -> StyleOf(style_map, "Part")
      [] branch = "article" -> StyleOf(style_map, "Article")
      [] branch = "list" -> ListStyle(list_map, IndentLevel(raw_text))
      [] OTHER -> [raises |-> FALSE, style |-> "Normal"]

\* the style the branch hands to add_safe_paragraph
LineStyle(style_map, list_map, branch, raw_text, flag) ==
    CASE branch = "end" -> StyleOf(style_map, "Title")
      [] branch = "title" -> StyleOf(style_map, "Title")
      [] branch = "part" -> StyleOf(style_map, "Part")
      [] branch = "article" -> StyleOf(style_map, "Article")
      [] branch = "list" -> ListStyle(list_map, IndentLevel(raw_text))
      [] OTHER -> IF flag THEN StyleOf(style_map, "Title")
                  ELSE [raises |-> FALSE, style |-> "Normal"]

(***************************************************************************)
(* "Clear Body": every node of the body of the template but the section    *)
(* properties is removed.                                                  *)
(***************************************************************************)
\* element.tag.endswith('sectPr')
IsSectPr(element) == element.tag = "sectPr"

\* doc.element.body.remove(element): the node of that identity is taken out
RemoveElement(nodes, element) == SelectSeq(nodes, LAMBDA e : e.id # element.id)

\* for element in doc.element.body (no copy): the iteration follows the
\* live body, whose next node moves up when one is removed
RECURSIVE ClearLive(_, _)
ClearLive(nodes, k) ==
    IF k > Len(nodes) THEN nodes
    ELSE IF IsSectPr(nodes[k]) THEN ClearLive(nodes, k + 1)
    ELSE ClearLive(RemoveElement(nodes, nodes[k]), k + 1)
ClearBodyWithoutCopy(nodes) == ClearLive(nodes, 1)

\* for element in list(doc.element.body): the nodes of the copy are
\* visited in order, each one that is no sectPr is removed from the body
RECURSIVE ClearLoop(_, _)
ClearLoop(copy, nodes) ==
    IF copy = <<>> THEN nodes
    ELSE IF IsSectPr(Head(copy)) THEN ClearLoop(Tail(copy), nodes)
    ELSE ClearLoop(Tail(copy), RemoveElement(nodes, Head(copy)))
ClearBody(nodes) == ClearLoop(nodes, nodes)

(***************************************************************************)
(* The state: the files the batch reads and writes, and the worker thread  *)
(* of run_batch with the locals of the call it is in.                      *)
(***************************************************************************)
VARIABLES
    cfgfile,     \* the configuration file (read by load_config)
    template,    \* the template file: [exists, styles, body]
    pc,          \* where the worker is
    run_btn,     \* state of the run button: "normal" or "disabled"
    config,      \* run_batch's local config
    total_files, \* len(files) of the listing of the master folder
    i,           \* index (from 1) of the file the for loop is at
    src,         \* the master document at master_path: [status, paras]
    md,          \* content of the temp markdown file of the current file
    mdfiles,     \* indexes of the files whose temp markdown file was written
    outfiles,    \* indexes of the files whose Formatted_ document was saved
    lines,       \* rebuild's local lines (f.readlines())
    ln,          \* index (from 1) of the next line of the for loop
    previous_line_was_title,
    body,        \* paragraphs rebuild added to the body of its local doc
    sect,        \* the nodes of the template left in the body of rebuild's
                 \* local doc; add_paragraph inserts before the section
                 \* properties, so the body of doc is body \o sect
    calls,       \* history: the add_safe_paragraph calls of the current rebuild,
                 \* each with its line, branch, arguments, the title flag and
                 \* the body length before it, and the paragraphs it added
    log,         \* the lines given to log_func / self.log
    md2,         \* content a second extraction writes from the saved output
    worker2      \* a second run_batch thread, started by a click on the run
                 \* button while a worker exists; followed at the statements
                 \* that touch the run button

vars == <<cfgfile, template, pc, run_btn, config, total_files, i, src, md, mdfiles,
          outfiles, lines, ln, previous_line_was_title, body, sect, calls, log, md2,
          worker2>>

NotLoaded == [type |-> "unset"]
NoDocument == [status |-> "none", paras |-> <<>>]
NotExtracted == [done |-> FALSE, lines |-> <<>>]
LogLine(msg, file) == [msg |-> msg, file |-> file]

\* what rebuild_from_markdown reads from config: config.get on something
\* that is no dict raises AttributeError
ConfigIsDict == config.type = "dict"
style_map == DictGet(config.items, "styles", DEFAULT_CONFIG.items.styles)
list_map == DictGet(config.items, "list_levels", DEFAULT_CONFIG.items.list_levels)
options == DictGet(config.items, "options", DEFAULT_CONFIG.items.options)

(***************************************************************************)
(* start_processing: the click on the run button starts the worker.        *)
(***************************************************************************)
StartProcessing ==
    /\ pc = "idle"
    /\ pc' = "begin"
    /\ UNCHANGED <<cfgfile, template, run_btn, config, total_files, i, src, md,
                   mdfiles, outfiles, lines, ln, previous_line_was_title, body,
                   calls, log, md2, sect,
                   worker2>>

(***************************************************************************)
(* run_batch up to the listing of the master folder.                       *)
(***************************************************************************)
RunBatchBegin ==
    /\ pc = "begin"
    /\ run_btn' = "disabled"
    /\ config' = load_config(cfgfile)
    /\ log' = log \o <<LogLine("start", 0),
                       IF load_config(cfgfile) = DEFAULT_CONFIG
                       THEN LogLine("default_config", 0)
                       ELSE LogLine("config_loaded", 0)>>
    /\ pc' = "scan"
    /\ UNCHANGED <<cfgfile, template, total_files, i, src, md, mdfiles, outfiles,
                   lines, ln, previous_line_was_title, body, calls, md2, sect,
                   worker2>>

\* files = [...os.listdir(masters_dir)...]; the early return when there
\* is no file. os.listdir raises when the master folder is no folder that
\* can be listed: nothing in run_batch catches it and the thread ends there.
ScanFiles(most) ==
    /\ pc = "scan"
    /\ \/ \E n \in 0..most :
            /\ total_files' = n
            /\ IF n = 0
               THEN /\ log' = log \o <<LogLine("no_files", 0)>>
                    /\ run_btn' = "normal"
                    /\ pc' = "done"
                    /\ i' = i
               ELSE /\ pc' = "extract"
                    /\ i' = 1
                    /\ UNCHANGED <<log, run_btn>>
       \/ /\ pc' = "dead"
          /\ UNCHANGED <<total_files, i, log, run_btn>>
    /\ UNCHANGED <<cfgfile, template, config, src, md, mdfiles, outfiles, lines, ln,
                   previous_line_was_title, body, calls, md2, sect,
                   worker2>>

\* ExtractFile whose run_batch goes on to Step 2 after an error of Step 1
ExtractFileNoBarrier(docs) ==
    /\ pc = "extract"
    /\ \E doc \in docs :
        /\ src' = doc
        /\ CASE doc.status = "missing" ->
                  /\ log' = log \o <<LogLine("processing", i)>>
                  /\ pc' = "progress"
                  /\ UNCHANGED <<md, mdfiles>>
             [] doc.status = "corrupt" ->
                  /\ log' = log \o <<LogLine("processing", i),
                                     LogLine("extract_error", i)>>
                  /\ pc' = "rebuild"
                  /\ UNCHANGED <<md, mdfiles>>
             [] doc.status = "unwritable" ->
                  /\ log' = log \o <<LogLine("processing", i),
                                     LogLine("extract_error", i)>>
                  /\ pc' = "progress"
                  /\ md' = <<>>
                  /\ mdfiles' \in {mdfiles, mdfiles \cup {i}}
             [] OTHER ->
                  /\ md' = ExtractContent(doc.paras)
                  /\ mdfiles' = mdfiles \cup {i}
                  /\ log' = log \o <<LogLine("processing", i)>>
                  /\ pc' = "rebuild"
    /\ UNCHANGED <<cfgfile, template, run_btn, config, total_files, i, outfiles,
                   lines, ln, previous_line_was_title, body, calls, md2, sect,
                   worker2>>

(***************************************************************************)
(* One file of the loop: "Processing", then Step 1,                        *)
(* extract_master_to_markdown, on the document found at master_path.       *)
(***************************************************************************)
ExtractFile(docs) ==
    /\ pc = "extract"
    /\ \E doc \in docs :
        /\ src' = doc
        /\ CASE doc.status = "missing" ->
                  \* os.path.exists(docx_path) fails: return False
                  /\ log' = log \o <<LogLine("processing", i)>>
                  /\ pc' = "progress"
                  /\ UNCHANGED <<md, mdfiles>>
             [] doc.status = "corrupt" ->
                  \* Document(docx_path) raises: except Exception
                  /\ log' = log \o <<LogLine("processing", i),
                                     LogLine("extract_error", i)>>
                  /\ pc' = "progress"
                  /\ UNCHANGED <<md, mdfiles>>
             [] doc.status = "unwritable" ->
                  \* open(md_path, "w") raises and there is no file, or it
                  \* creates the file and f.write raises: except Exception
                  /\ log' = log \o <<LogLine("processing", i),
                                     LogLine("extract_error", i)>>
                  /\ pc' = "progress"
                  /\ md' = <<>>
                  /\ mdfiles' \in {mdfiles, mdfiles \cup {i}}
             [] OTHER ->
                  /\ md' = ExtractContent(doc.paras)
                  /\ mdfiles' = mdfiles \cup {i}
                  /\ log' = log \o <<LogLine("processing", i)>>
                  /\ pc' = "rebuild"
    /\ UNCHANGED <<cfgfile, template, run_btn, config, total_files, i, outfiles,
                   lines, ln, previous_line_was_title, body, calls, md2, sect,
                   worker2>>

(***************************************************************************)
(* Step 2, rebuild_from_markdown: the template check, the configuration,   *)
(* the cleared body and the lines read.                                    *)
(***************************************************************************)
RebuildBegin ==
    /\ pc = "rebuild"
    /\ IF ~template.exists
       THEN /\ log' = log \o <<LogLine("template_not_found", i)>>
            /\ pc' = "progress"
            /\ UNCHANGED <<lines, ln, previous_line_was_title, body, sect, calls>>
       ELSE IF ~ConfigIsDict
       THEN /\ log' = log \o <<LogLine("build_error", i)>>
            /\ pc' = "progress"
            /\ UNCHANGED <<lines, ln, previous_line_was_title, body, sect, calls>>
       ELSE /\ sect' = ClearBody(template.body)
            /\ lines' = ReadLines(md)
            /\ ln' = 1
            /\ previous_line_was_title' = FALSE
            /\ body' = <<>>
            /\ calls' = <<>>
            /\ pc' = "lines"
            /\ UNCHANGED log
    /\ UNCHANGED <<cfgfile, template, run_btn, config, total_files, i, src, md,
                   mdfiles, outfiles, md2, worker2>>

\* one iteration of `for line in lines`
RebuildLine ==
    /\ pc = "lines"
    /\ ln <= Len(lines)
    /\ LET raw_text == RStrip(lines[ln])
           stripped_text == Strip(raw_text)
           branch == LineBranch(stripped_text)
           text == LineText(options, branch, stripped_text)
           st == LineStyle(style_map, list_map, branch, raw_text,
                           previous_line_was_title)
       IN IF stripped_text = <<>>
          THEN /\ ln' = ln + 1
               /\ UNCHANGED <<pc, previous_line_was_title, body, calls, log>>
          ELSE IF st.raises
          THEN \* KeyError / IndexError reaches rebuild's except Exception
               /\ log' = log \o <<LogLine("build_error", i)>>
               /\ pc' = "progress"
               /\ UNCHANGED <<ln, previous_line_was_title, body, calls>>
          ELSE /\ body' = body \o add_safe_paragraph(template.styles, text, st.style)
               /\ calls' = Append(calls,
                      [line |-> ln, branch |-> branch, text |-> text,
                       style_name |-> st.style, flag |-> previous_line_was_title,
                       indent_level |-> IF branch = "list" THEN IndentLevel(raw_text)
                                        ELSE 0,
                       at |-> Len(body),
                       added |-> Len(add_safe_paragraph(template.styles, text,
                                                        st.style))])
               /\ previous_line_was_title' = FlagAfter(branch)
               /\ ln' = ln + 1
               /\ UNCHANGED <<pc, log>>
    /\ UNCHANGED <<cfgfile, template, run_btn, config, total_files, i, src, md,
                   mdfiles, outfiles, lines, md2, sect,
                   worker2>>

\* doc.save(output_path); return True; and run_batch's "Done."
RebuildSave ==
    /\ pc = "lines"
    /\ ln > Len(lines)
    /\ outfiles' = outfiles \cup {i}
    /\ log' = log \o <<LogLine("done", i)>>
    /\ pc' = "progress"
    /\ UNCHANGED <<cfgfile, template, run_btn, config, total_files, i, src, md,
                   mdfiles, lines, ln, previous_line_was_title, body, calls, md2, sect,
                   worker2>>

(***************************************************************************)
(* A second extraction, of the document rebuild saved for the current      *)
(* file: extract_master_to_markdown reads back each paragraph's text and   *)
(* the name of its style (the default style 'Normal' for a paragraph that  *)
(* carries none).                                                          *)
(***************************************************************************)
SavedParagraphs ==
    [k \in 1..Len(body) |->
        [text |-> body[k].text,
         style |-> IF body[k].style = NoStyle THEN "Normal" ELSE body[k].style]]

ReExtract ==
    /\ pc = "progress"
    /\ i \in outfiles
    /\ ~md2.done
    /\ md2' = [done |-> TRUE, lines |-> ExtractLines(SavedParagraphs)]
    /\ UNCHANGED <<cfgfile, template, pc, run_btn, config, total_files, i, src, md,
                   mdfiles, outfiles, lines, ln, previous_line_was_title, body,
                   calls, log, sect, worker2>>

(***************************************************************************)
(* The end of one iteration (the progress bar) and the end of the batch.   *)
(***************************************************************************)
Progress ==
    /\ pc = "progress"
    /\ IF i < total_files
       THEN /\ i' = i + 1
            /\ pc' = "extract"
            /\ UNCHANGED <<log, run_btn>>
       ELSE /\ log' = log \o <<LogLine("batch_complete", 0)>>
            /\ run_btn' = "normal"
            /\ pc' = "done"
            /\ i' = i
    /\ src' = NoDocument
    /\ md' = <<>>
    /\ lines' = <<>>
    /\ ln' = 0
    /\ previous_line_was_title' = FALSE
    /\ body' = <<>>
    /\ sect' = <<>>
    /\ calls' = <<>>
    /\ md2' = NotExtracted
    /\ UNCHANGED <<cfgfile, template, config, total_files, mdfiles, outfiles,
                   worker2>>

(***************************************************************************)
(* A second click. The run button takes a click while its state is normal, *)
(* and run_batch disables it only as its first statement, in the thread    *)
(* start_processing started: a click that comes before that statement      *)
(* starts a second thread. The second thread runs the same run_batch; it   *)
(* is followed at its first statements and at its end.                     *)
(***************************************************************************)
StartProcessingAgain ==
    /\ run_btn = "normal"
    /\ pc # "idle"
    /\ worker2 = "idle"
    /\ worker2' = "begin"
    /\ UNCHANGED <<cfgfile, template, pc, run_btn, config, total_files, i, src, md,
                   mdfiles, outfiles, lines, ln, previous_line_was_title, body,
                   sect, calls, log, md2>>

\* self.run_btn.config(state="disabled"); self.log("--- Starting ...")
Worker2Begin ==
    /\ worker2 = "begin"
    /\ run_btn' = "disabled"
    /\ log' = log \o <<LogLine("start", 0)>>
    /\ worker2' = "run"
    /\ UNCHANGED <<cfgfile, template, pc, config, total_files, i, src, md, mdfiles,
                   outfiles, lines, ln, previous_line_was_title, body, sect, calls,
                   md2>>

\* the end of the second thread: one of the two returns of run_batch,
\* which set the button to normal, or the exception of os.listdir
Worker2End ==
    /\ worker2 = "run"
    /\ \/ /\ \E msg \in {"no_files", "batch_complete"} :
                log' = log \o <<LogLine(msg, 0)>>
          /\ run_btn' = "normal"
          /\ worker2' = "done"
       \/ /\ worker2' = "dead"
          /\ UNCHANGED <<log, run_btn>>
    /\ UNCHANGED <<cfgfile, template, pc, config, total_files, i, src, md, mdfiles,
                   outfiles, lines, ln, previous_line_was_title, body, sect, calls,
                   md2>>

(***************************************************************************)
(* The inputs: configuration files, templates and master documents.        *)
(***************************************************************************)
\* style names a project configuration gives
CustomStyles == [Title |-> "CSILevel0", Part |-> "CSILevel1", Article |-> "CSILevel2"]
LevelNames == <<"CSIList1", "CSIList2", "CSIList3", "CSIList4", "CSIList5", "CSIList6">>

\* a dict restricted to some of its keys
Restrict(d, keys) == [k \in keys |-> d[k]]

\* a configuration dict with the sections `keys`
ConfigDict(keys, sm, lm, om) ==
    [type |-> "dict",
     items |-> [k \in keys |-> CASE k = "styles" -> sm
                                 [] k = "list_levels" -> lm
                                 [] OTHER -> om]]

ConfigDicts(keySets, styleMaps, listMaps, optionMaps) ==
    {ConfigDict(keys, sm, lm, om) :
        keys \in keySets, sm \in styleMaps, lm \in listMaps, om \in optionMaps}

\* a configuration file json.load parses to `value`
ConfigFile(value) ==
    [path |-> "config.json", exists |-> TRUE, parses |-> TRUE, value |-> value]

\* the three files load_config answers with the defaults: no path given,
\* no file at the path, a file json.load cannot parse
DefaultingFiles ==
    {[path |-> "", exists |-> FALSE, parses |-> FALSE, value |-> NotLoaded],
     [path |-> "config.json", exists |-> FALSE, parses |-> FALSE, value |-> NotLoaded],
     [path |-> "config.json", exists |-> TRUE, parses |-> FALSE, value |-> NotLoaded]}

ListMaps == {SubSeq(LevelNames, 1, n) : n \in 0..MaxLevels}

HeadingStyles == {"Heading 1", "Heading 2", "Heading 3",
                  "CSILevel0", "CSILevel1", "CSILevel2"}
ListStyles == {"List Bullet", "List Bullet 2", "List Bullet 3"}
                  \cup {LevelNames[k] : k \in 1..Len(LevelNames)}

\* a template on disk with the given paragraph styles beside 'Normal'
\* a node of the body of a document: its tag and its identity
Element(tag, id) == [tag |-> tag, id |-> id]
\* the body of an ordinary template: sample text, a table and the section
\* properties
SampleBody == <<Element("p", 1), Element("tbl", 2), Element("sectPr", 3)>>

TemplateWith(styleSet, nodes) ==
    [exists |-> TRUE, styles |-> styleSet \cup {"Normal"}, body |-> nodes]
Template(styleSet) == TemplateWith(styleSet, SampleBody)
NoTemplate == [exists |-> FALSE, styles |-> {}, body |-> <<>>]

\* sequences of at most n elements of S
SeqsUpTo(S, n) == UNION {[1..k -> S] : k \in 0..n}

Document(paras) == [status |-> "ok", paras |-> paras]
\* a master file that is gone when it is opened (a dangling link, a file
\* removed after the listing), one python-docx cannot open, and one whose
\* intermediate file cannot be written (no room, no permission)
BadDocuments == {[status |-> "missing", paras |-> <<>>],
                 [status |-> "corrupt", paras |-> <<>>],
                 [status |-> "unwritable", paras |-> <<>>]}

InitWorker ==
    /\ pc = "idle"
    /\ run_btn = "normal"
    /\ config = NotLoaded
    /\ total_files = 0
    /\ i = 0
    /\ src = NoDocument
    /\ md = <<>>
    /\ mdfiles = {}
    /\ outfiles = {}
    /\ lines = <<>>
    /\ ln = 0
    /\ previous_line_was_title = FALSE
    /\ body = <<>>
    /\ sect = <<>>
    /\ calls = <<>>
    /\ log = <<>>
    /\ md2 = NotExtracted
    /\ worker2 = "idle"

(***************************************************************************)
(* Spec: the batch of up to MaxFiles files, every shape of configuration   *)
(* file and template, master documents of a few paragraphs.                *)
(***************************************************************************)
BatchTexts ==
    {<<"S", "E", "C", "T", "I", "O", "N">>,
     <<"P", "a", "r", "t", "-", "1">>,
     <<"a", ")", SP, "x">>,
     <<"x">>}

BatchDocuments ==
    {Document(ps) :
        ps \in SeqsUpTo({[text |-> t, style |-> "Normal"] : t \in BatchTexts}, MaxParas)}
    \cup BadDocuments

SpecConfigFiles ==
    DefaultingFiles
    \cup {ConfigFile(v) :
            v \in {[type |-> "other"]}
                  \cup ConfigDicts({{}, {"styles", "list_levels"}},
                                   {CustomStyles, Restrict(CustomStyles, {"Title", "Article"})},
                                   ListMaps, {<<>>})}

SpecTemplates ==
    {NoTemplate, Template({}), Template(HeadingStyles), Template(HeadingStyles \cup ListStyles)}

Init ==
    /\ cfgfile \in SpecConfigFiles
    /\ template \in SpecTemplates
    /\ InitWorker

Next ==
    \/ StartProcessing
    \/ RunBatchBegin
    \/ ScanFiles(MaxFiles)
    \/ ExtractFile(BatchDocuments)
    \/ RebuildBegin
    \/ RebuildLine
    \/ RebuildSave
    \/ Progress

Spec == Init /\ [][Next]_vars

(***************************************************************************)
(* SpecLines: one master document of up to MaxParas paragraphs, one of     *)
(* each kind of line, each list depth, the literal END OF SECTION, an      *)
(* instruction, a note and a blank paragraph; every length of list_levels. *)
(***************************************************************************)
LineTexts ==
    {<<"S", "E", "C", "T", "I", "O", "N">>,
     <<"P", "a", "r", "t", "-", "1">>,
     <<"1", ".", "1", SP, "x">>,
     <<"A", ".", SP, "x">>,
     <<"1", ".", SP, "x">>,
     <<"a", ".", SP, "x">>,
     <<"1", ")", SP, "x">>,
     <<"a", ")", SP, "x">>,
     <<"x">>,
     <<"e", "n", "d", SP, "o", "f", SP, "S", "E", "C", "T", "I", "O", "N">>,
     <<"D", "e", "l", "e", "t", "e", SP, "x">>,
     <<"D", "e", "l", "e", "t", "e", SP>>,
     <<SP>>}

LineParagraphs ==
    {[text |-> t, style |-> "Normal"] : t \in LineTexts}
        \cup {[text |-> t, style |-> "Note"] :
                t \in {<<"x">>, <<"S", "E", "C", "T", "I", "O", "N">>, <<"A", ".", SP, "x">>}}

LineDocuments == {Document(ps) : ps \in SeqsUpTo(LineParagraphs, MaxParas)}

LineConfigFiles ==
    {ConfigFile(v) :
        v \in ConfigDicts({{"styles"}, {"styles", "list_levels"}},
                          {CustomStyles}, ListMaps, {<<>>})}

InitLines ==
    /\ cfgfile \in LineConfigFiles
    /\ template = Template(HeadingStyles \cup ListStyles)
    /\ InitWorker

NextLines ==
    \/ StartProcessing
    \/ RunBatchBegin
    \/ ScanFiles(1)
    \/ ExtractFile(LineDocuments)
    \/ RebuildBegin
    \/ RebuildLine
    \/ RebuildSave
    \/ Progress

SpecLines == InitLines /\ [][NextLines]_vars

(***************************************************************************)
(* SpecText: one master document of one paragraph whose text is any        *)
(* concatenation of up to MaxFrags fragments; every setting of the two     *)
(* strip options; the saved output is extracted a second time.             *)
(***************************************************************************)
Fragments ==
    {<<"S", "E", "C", "T", "I", "O", "N">>,
     <<"P", "a", "r", "t">>,
     <<"E", "n", "d", SP, "o", "f", SP>>,
     <<"-">>,
     <<"#", SP>>,
     <<"A">>,
     <<"a">>,
     <<"1">>,
     <<".", SP>>,
     <<")", SP>>,
     <<".", "1", SP>>,
     <<NL>>,
     <<NL, NL>>}

RECURSIVE Concat(_)
Concat(frags) == IF frags = <<>> THEN <<>> ELSE Head(frags) \o Concat(Tail(frags))

Texts == {Concat(fs) : fs \in SeqsUpTo(Fragments, MaxFrags)}

TextDocuments == {Document(<<[text |-> t, style |-> "Normal"]>>) : t \in Texts}

\* an option dict with the keys that are set to true; a key left out is unset
TextOptionMaps ==
    {[k \in keys |-> TRUE] : keys \in SUBSET {"strip_heading_numbers", "strip_list_labels"}}

TextConfigFiles ==
    {ConfigFile(v) :
        v \in ConfigDicts({{"styles", "list_levels", "options"}},
                          {CustomStyles}, {SubSeq(LevelNames, 1, 3)}, TextOptionMaps)}

InitText ==
    /\ cfgfile \in TextConfigFiles
    /\ template = Template(HeadingStyles \cup ListStyles)
    /\ InitWorker

NextText ==
    \/ StartProcessing
    \/ RunBatchBegin
    \/ ScanFiles(1)
    \/ ExtractFile(TextDocuments)
    \/ RebuildBegin
    \/ RebuildLine
    \/ RebuildSave
    \/ ReExtract
    \/ Progress

SpecText == InitText /\ [][NextText]_vars

(***************************************************************************)
(* SpecClear: every template body of up to MaxNodes nodes (paragraphs,     *)
(* tables, section properties in any order), the default configuration,    *)
(* one master document.                                                    *)
(***************************************************************************)
Tags == {"p", "tbl", "sectPr"}

TemplateBodies ==
    UNION {{[k \in 1..n |-> Element(f[k], k)] : f \in [1..n -> Tags]} : n \in 0..MaxNodes}

ClearTemplates == {TemplateWith(HeadingStyles \cup ListStyles, b) : b \in TemplateBodies}

InitClear ==
    /\ cfgfile = [path |-> "", exists |-> FALSE, parses |-> FALSE, value |-> NotLoaded]
    /\ template \in ClearTemplates
    /\ InitWorker

NextClear ==
    \/ StartProcessing
    \/ RunBatchBegin
    \/ ScanFiles(1)
    \/ ExtractFile(BatchDocuments)
    \/ RebuildBegin
    \/ RebuildLine
    \/ RebuildSave
    \/ Progress

SpecClear == InitClear /\ [][NextClear]_vars

(***************************************************************************)
(* SpecGui: the clicks on the run button and the threads they start. The   *)
(* threads are scheduled (weak fairness of their steps); nothing makes the *)
(* user click.                                                             *)
(***************************************************************************)
InitGui ==
    /\ cfgfile = [path |-> "", exists |-> FALSE, parses |-> FALSE, value |-> NotLoaded]
    /\ template = Template(HeadingStyles \cup ListStyles)
    /\ InitWorker

WorkerStep ==
    \/ RunBatchBegin
    \/ ScanFiles(1)
    \/ ExtractFile(BatchDocuments)
    \/ RebuildBegin
    \/ RebuildLine
    \/ RebuildSave
    \/ Progress

Worker2Step == Worker2Begin \/ Worker2End

NextGui ==
    \/ StartProcessing
    \/ StartProcessingAgain
    \/ WorkerStep
    \/ Worker2Step

SpecGui == InitGui /\ [][NextGui]_vars /\ WF_vars(WorkerStep) /\ WF_vars(Worker2Step)

(***************************************************************************)
(* The claims.                                                             *)
(***************************************************************************)
\* the stripped text of line number k of rebuild's lines
StrippedLine(k) == Strip(RStrip(lines[k]))

\* the number of non-blank lines of a file content
NonBlankCount(content) ==
    LET ls == ReadLines(content)
    IN Cardinality({k \in 1..Len(ls) : Strip(RStrip(ls[k])) # <<>>})

\* the only paragraph of a one-paragraph master document
OnlyParagraph == src.paras[1]

\* the rebuilder's branch that stands for the extractor's kind
KindBranch(kind) ==
    CASE kind = "SectionTitle" -> "title"
      [] kind = "PartHeader" -> "part"
      [] kind = "ArticleHeader" -> "article"
      [] kind = "ListItem" -> "list"
      [] OTHER -> "body"

\* C1: round trip of the classification: for a trimmed, non-empty,
\* non-filtered paragraph text, the line the extractor emits is dispatched
\* by the rebuilder to the branch of the kind the extractor chose, and for a
\* list item the rebuilder's depth (dash_index // 2) is the extractor's.
C1_RoundTrip ==
    (pc = "progress" /\ i \in outfiles /\ Len(src.paras) = 1 /\ ~Skipped(OnlyParagraph))
    => LET c == Classify(Strip(OnlyParagraph.text))
       IN /\ Len(calls) = 1
          /\ calls[1].branch = KindBranch(c.kind)
          /\ c.kind = "ListItem" => calls[1].indent_level = c.depth

\* the filter of C2 as amended: the style is denylisted or the trimmed text
\* starts with a configured prefix
FilteredTrimmed(para) ==
    \/ para.style \in IGNORED_STYLES
    \/ \E k \in 1..Len(IGNORED_STARTS) : StartsWith(Strip(para.text), IGNORED_STARTS[k])

\* the filter of C2 as stated: the style is denylisted or the paragraph's
\* text starts with a configured prefix
FilteredAsStated(para) ==
    \/ para.style \in IGNORED_STYLES
    \/ \E k \in 1..Len(IGNORED_STARTS) : StartsWith(para.text, IGNORED_STARTS[k])

\* the paragraphs of the master document that are not blank and do not
\* satisfy the filter
Surviving(Filter(_)) ==
    {k \in 1..Len(src.paras) :
        Strip(src.paras[k].text) # <<>> /\ ~Filter(src.paras[k])}

CompleteConfig ==
    /\ ConfigIsDict
    /\ {"Title", "Part", "Article"} \subseteq DOMAIN style_map
    /\ Len(list_map) > 0

\* C3: a configured style that the template lacks does not fail the
\* document: the paragraph is emitted with the same text in 'Normal', the
\* later lines are processed, the document is saved.
C3_FallbackNonFatal ==
    /\ \A k \in 1..Len(calls) :
          LET c == calls[k]
          IN body[c.at + c.added] =
                Paragraph(c.text, IF c.style_name \in template.styles
                                  THEN c.style_name ELSE "Normal")
    /\ (pc = "progress" /\ src.status = "ok" /\ template.exists /\ CompleteConfig)
       => /\ i \in outfiles
          /\ Len(calls) = NonBlankCount(md)

\* C3 witness: a document was saved in which a line used a style the
\* template lacks and a later line was processed after it.
C3_Witness ==
    /\ pc = "progress" /\ i \in outfiles
    /\ \E k \in 1..Len(calls) :
          /\ k < Len(calls)
          /\ calls[k].style_name \notin template.styles
          /\ calls[k].style_name \in {style_map[key] : key \in DOMAIN style_map}
                                      \cup {list_map[j] : j \in 1..Len(list_map)}

Min(a, b) == IF a <= b THEN a ELSE b

\* the column of the '-' of a list line: the whitespace before it
DashColumn(k) == SpaceRun(RStrip(lines[k]), 0)

\* C4: a list line at depth = (column of the '-') // 2 is emitted with the
\* style list_levels[min(depth, len(list_levels) - 1)]; at every depth >=
\* len(list_levels) that is the last entry.
C4_ListStyle ==
    \A k \in 1..Len(calls) :
        LET c == calls[k]
            depth == DashColumn(c.line) \div 2
        IN c.branch = "list"
           => /\ c.style_name = list_map[Min(depth, Len(list_map) - 1) + 1]
              /\ depth >= Len(list_map) => c.style_name = list_map[Len(list_map)]
              /\ body[c.at + 1].style = c.style_name

\* C4 witness: a list line deeper than the configured list_levels was
\* emitted in a saved document.
C4_Witness ==
    /\ pc = "progress" /\ i \in outfiles
    /\ \E k \in 1..Len(calls) :
          /\ calls[k].branch = "list"
          /\ DashColumn(calls[k].line) \div 2 > Len(list_map)
          /\ Len(list_map) >= 2

\* C5: every non-blank line whose stripped text starts, case-insensitively,
\* with END OF SECTION is emitted with the configured Title style, whatever
\* the title flag, and takes no other branch.
C5_EndOfSection ==
    /\ \A k \in 1..Len(calls) :
          LET c == calls[k]
          IN StartsWith(Upper(StrippedLine(c.line)), END_OF_SECTION)
             => /\ c.branch = "end"
                /\ c.style_name = style_map["Title"]
                /\ body[c.at + 1] = Paragraph(StrippedLine(c.line), style_map["Title"])
    /\ pc = "lines"
       => \A j \in 1..(ln - 1) :
             StrippedLine(j) # <<>> => \E k \in 1..Len(calls) : calls[k].line = j

\* C5 witness: an END OF SECTION line was emitted, last in a saved document,
\* while the title flag was set.
C5_Witness ==
    /\ pc = "progress" /\ i \in outfiles
    /\ \E k \in 1..Len(calls) : calls[k].branch = "end" /\ calls[k].flag
    /\ calls[Len(calls)].branch = "end"

\* the predicates of the classification, in the order of C6
IsSection(t) == StartsWith(Upper(t), SECTION)
IsPart(t) == StartsWith(Upper(t), PART) /\ Contains(t, "-")
LabelMatches(t) ==
    <<MatchUpperDot(t), MatchDigitDot(t), MatchLowerDot(t), MatchDigitParen(t),
      MatchLowerParen(t)>>
\* the first of the five list-label patterns a text matches, 0 for none
FirstLabel(t) ==
    IF \E k \in 1..5 : LabelMatches(t)[k]
    THEN CHOOSE k \in 1..5 : LabelMatches(t)[k] /\ \A j \in 1..(k - 1) : ~LabelMatches(t)[j]
    ELSE 0

\* C6: the classification is first-match-wins in the order SECTION, PART
\* with a hyphen, digits.digits, the five list labels A. 1. a. 1) a) (depth
\* 0 to 4), else Body: the one line the extractor writes for a text carries
\* the marker of the earliest predicate the text satisfies.
C6_Priority ==
    (pc = "rebuild" /\ i \in mdfiles /\ Len(src.paras) = 1 /\ ~Skipped(OnlyParagraph))
    => LET t == Strip(OnlyParagraph.text)
           d == FirstLabel(t)
       IN md = IF IsSection(t) THEN TitleMark \o t
               ELSE IF IsPart(t) THEN <<NL>> \o PartMark \o t
               ELSE IF MatchArticle(t) THEN <<NL>> \o ArticleMark \o t
               ELSE IF d > 0 THEN Spaces(2 * (d - 1)) \o ListMark \o t
               ELSE <<SP, SP>> \o t

\* C6 witness: a text with the label a) was written as a list line of
\* depth 4.
C6_Witness ==
    /\ pc = "rebuild" /\ i \in mdfiles /\ Len(src.paras) = 1
    /\ LET t == Strip(OnlyParagraph.text)
       IN /\ MatchLowerParen(t)
          /\ md = Spaces(8) \o ListMark \o t

\* a log line of a message for a file
Logged(msg, file) == \E k \in 1..Len(log) : log[k] = LogLine(msg, file)

\* the files whose iteration of the loop is over
Finished(j) == j < i \/ (j = i /\ pc \in {"progress", "done"})

\* C7: a batch never aborts because one document failed: each file's
\* pipeline is attempted whatever happened to the files before it, a
\* failure is reported to the log, and the loop reaches the last file and
\* the batch-complete step.
C7_FailureReported ==
    /\ \A j \in 1..total_files :
          Finished(j)
          => /\ Logged("processing", j)
             /\ j \notin outfiles
                => \/ Logged("extract_error", j)
                   \/ Logged("template_not_found", j)
                   \/ Logged("build_error", j)
    /\ (pc = "done" /\ total_files > 0)
       => i = total_files /\ Logged("batch_complete", 0)

\* C8: idempotence of headers: the second extraction, of the rebuilt
\* document, gives for a Title, Part or Article paragraph the same header
\* line as the first; with strip_heading_numbers set, an Article's line
\* is that of its text without the numbering.
C8_HeadersIdempotent ==
    (md2.done /\ Len(src.paras) = 1 /\ ~Skipped(OnlyParagraph))
    => LET t == Strip(OnlyParagraph.text)
           kind == Classify(t).kind
       IN kind \in {"SectionTitle", "PartHeader", "ArticleHeader"}
          => md2.lines =
                <<IF kind = "ArticleHeader" /\ OptionSet(options, "strip_heading_numbers")
                  THEN MarkdownLine(SubHeadingNumber(t))
                  ELSE MarkdownLine(t)>>

\* every character of s is in S
AllIn(s, S) == \A k \in 1..Len(s) : s[k] \in S

\* h is a numbering token digits.digits and whitespace, followed by rest
NumberedHeading(h, rest) ==
    \E a, b, w \in 1..Len(h) :
        /\ a + 1 + b + w <= Len(h)
        /\ AllIn(SubSeq(h, 1, a), Digits)
        /\ h[a + 1] = "."
        /\ AllIn(SubSeq(h, a + 2, a + 1 + b), Digits)
        /\ AllIn(SubSeq(h, a + 2 + b, a + 1 + b + w), WhiteSpace)
        /\ rest = From(h, a + 1 + b + w)
        /\ (rest = <<>> \/ ~IsSpace(rest[1]))

\* item is one of the labels A. 1. a. 1) a) and whitespace, followed by rest
LabelledItem(item, rest) ==
    \E a, w \in 1..Len(item) :
        /\ a + 1 + w <= Len(item)
        /\ \/ a = 1 /\ IsUpper(item[1]) /\ item[2] = "."
           \/ a = 1 /\ IsLower(item[1]) /\ item[2] \in {".", ")"}
           \/ AllIn(SubSeq(item, 1, a), Digits) /\ item[a + 1] \in {".", ")"}
        /\ AllIn(SubSeq(item, a + 2, a + 1 + w), WhiteSpace)
        /\ rest = From(item, a + 1 + w)
        /\ (rest = <<>> \/ ~IsSpace(rest[1]))

\* C9: label stripping is controlled by the options: with
\* strip_heading_numbers set an Article line's text is the heading (the
\* line with its marker removed) without its leading digits.digits token,
\* with strip_list_labels set a list line's text is the item without its
\* leading label A. 1. a. 1) a); with the option unset the text is the
\* heading or the item unchanged; a Title, Part or Body line keeps a
\* leading token.
C9_LabelStripping ==
    \A k \in 1..Len(calls) :
        LET c == calls[k]
            line == StrippedLine(c.line)
            heading == Remove(line, ArticleMark)
            item == From(line, 2)
        IN /\ c.branch = "article"
              => IF OptionSet(options, "strip_heading_numbers")
                 THEN \/ NumberedHeading(heading, c.text)
                      \/ c.text = heading /\ \A r \in {From(heading, n) : n \in 1..Len(heading)} :
                                                ~NumberedHeading(heading, r)
                 ELSE c.text = heading
           /\ c.branch = "list"
              => IF OptionSet(options, "strip_list_labels")
                 THEN \A r \in {From(item, n) : n \in 1..Len(item)} :
                         LabelledItem(item, r) => c.text = r
                 ELSE c.text = item
           /\ c.branch = "title" => c.text = Remove(line, TitleMark)
           /\ c.branch = "part" => c.text = Remove(line, PartMark)
           /\ c.branch \in {"body", "end"} => c.text = line

\* C9 witness: an Article line lost its numbering in a saved document.
C9_Witness ==
    /\ pc = "progress" /\ i \in outfiles
    /\ \E k \in 1..Len(calls) :
          /\ calls[k].branch = "article"
          /\ OptionSet(options, "strip_heading_numbers")
          /\ calls[k].text # Remove(StrippedLine(calls[k].line), ArticleMark)

\* C10: load_config answers with the built-in defaults when the path is
\* empty, the file is absent or json.load fails, and the rebuilder then runs
\* with styles, list_levels and options all defined, for every content of
\* the configuration file.
C10_ConfigDefaults ==
    /\ (config # NotLoaded /\ cfgfile \in DefaultingFiles) => config = DEFAULT_CONFIG
    /\ (pc \in {"lines", "progress"} /\ src.status = "ok" /\ template.exists)
       => ConfigIsDict

\* C11: only a missing source document and a missing template keep the
\* output of a document from being produced: once the extraction has
\* succeeded and the template exists, rebuild_from_markdown saves the
\* output, whatever the configuration, the styles of the template and
\* the intermediate text are.
C11_OutputProduced ==
    (pc = "progress" /\ src.status = "ok" /\ template.exists) => i \in outfiles

\* a paragraph went from a configured style the template lacks to 'Normal'
FellBack(c) == c.style_name \notin template.styles

\* C12: no failure is swallowed: a file whose output was not produced has a
\* log line that tells why (source missing, template missing, an error
\* inside the document), and each fallback of a paragraph from an absent
\* style to the default style is reported as a warning.
C12_NothingSwallowed ==
    /\ \A j \in 1..total_files :
          (Finished(j) /\ j \notin outfiles)
          => \E msg \in {"source_not_found", "extract_error", "template_not_found",
                         "build_error"} : Logged(msg, j)
    /\ \A k \in 1..Len(calls) :
          FellBack(calls[k]) => Logged("style_warning", i)

\* the last non-blank line before line n of rebuild's lines, 0 for none
LastNonBlank(n) ==
    LET S == {j \in 1..(n - 1) : StrippedLine(j) # <<>>}
    IN IF S = {} THEN 0 ELSE CHOOSE j \in S : \A k \in S : k <= j

\* the nearest non-blank line before line n is a `# ` line
AfterTitleLine(n) ==
    LastNonBlank(n) > 0 /\ StartsWith(StrippedLine(LastNonBlank(n)), TitleMark)

\* C13: the title flag is clear before the first line, and after any
\* sequence of lines it is set exactly when the last non-blank line
\* processed was a `# ` line: only a `# ` line sets it, every other
\* non-blank line (`## `, `### `, list, body, END OF SECTION) clears it
\* and a blank line leaves it.
C13_TitleFlag ==
    pc = "lines" => (previous_line_was_title <=> AfterTitleLine(ln))

\* C13 witness: the flag, set by a `# ` line, was cleared by the line
\* after it.
C13_Witness ==
    /\ pc = "lines"
    /\ Len(calls) >= 2
    /\ calls[Len(calls)].flag
    /\ ~previous_line_was_title

\* C14: a Body line is emitted with the configured Title style if and
\* only if the nearest non-blank line before it is a `# ` line, blank
\* lines in between or not; every other Body line is emitted in 'Normal';
\* a Body line in the Title style comes right after a `# ` line, so at most
\* one follows each.
C14_BodyAfterTitle ==
    \A k \in 1..Len(calls) :
        LET c == calls[k]
        IN c.branch = "body"
           => /\ c.style_name = IF AfterTitleLine(c.line) THEN style_map["Title"]
                                ELSE "Normal"
              /\ body[c.at + 1] = Paragraph(StrippedLine(c.line), c.style_name)
              /\ c.style_name = style_map["Title"]
                 => k > 1 /\ calls[k - 1].branch = "title"

\* C14 witness: a Body line that follows a `# ` line after a blank line was
\* emitted with the Title style in a saved document.
C14_Witness ==
    /\ pc = "progress" /\ i \in outfiles
    /\ \E k \in 2..Len(calls) :
          /\ calls[k].branch = "body"
          /\ calls[k].line > calls[k - 1].line + 1
          /\ calls[k].style_name = style_map["Title"]

\* rebuild_from_markdown has not been called for the current file
RebuildNotStarted ==
    /\ lines = <<>> /\ calls = <<>> /\ body = <<>>
    /\ i \notin outfiles
    /\ \A msg \in {"template_not_found", "build_error", "done"} : ~Logged(msg, i)

\* rebuild is under way, or over, only on an extraction that returned
\* success after the whole intermediate file was written
BarrierHolds ==
    /\ pc \in {"rebuild", "lines"}
       => /\ src.status = "ok"
          /\ i \in mdfiles
          /\ md = ExtractContent(src.paras)
    /\ pc = "lines" => lines = ReadLines(md)
    /\ (pc = "progress" /\ src.status # "ok") => RebuildNotStarted

\* C15 (amended): rebuild starts only after the extraction of the same
\* document has returned success with the whole intermediate file written,
\* it is never started for a document whose extraction failed, and an
\* extraction that fails before it opens the intermediate file (source
\* missing, source unreadable) writes no intermediate file.
C15_Barrier ==
    /\ BarrierHolds
    /\ (pc = "progress" /\ src.status \in {"missing", "corrupt"}) => i \notin mdfiles

\* C15 as stated: on every failed extraction no intermediate file is
\* written for the document.
C15_AsStated ==
    /\ BarrierHolds
    /\ (pc = "progress" /\ src.status # "ok") => i \notin mdfiles

\* C15 witness: the second document of a batch failed to be read, after a
\* first one that was rebuilt and saved; no rebuild was started for it.
C15_Witness ==
    /\ pc = "progress" /\ i = 2
    /\ 1 \in outfiles
    /\ src.status = "corrupt"
    /\ RebuildNotStarted

\* the section properties of the body of the template, in their order
SectionProperties == SelectSeq(template.body, IsSectPr)

\* every paragraph of the body of rebuild's document was added by one of
\* the add_safe_paragraph calls of the lines
OnlyEmittedParagraphs ==
    \A k \in 1..Len(body) :
        \E n \in 1..Len(calls) :
            /\ calls[n].at < k /\ k <= calls[n].at + calls[n].added
            /\ body[k].text = calls[n].text

\* C16: after the clearing the body holds exactly the section properties
\* the template had, unchanged and in their order, and no other node of the
\* template; the saved body is those and the paragraphs emitted from the
\* lines.
C16_TemplateCleared ==
    (pc = "lines" \/ (pc = "progress" /\ i \in outfiles))
    => /\ sect = SectionProperties
       /\ \A k \in 1..Len(sect) : IsSectPr(sect[k])
       /\ OnlyEmittedParagraphs

\* C16 witness: a document was saved from a template whose body had
\* section properties before and after a paragraph or a table.
C16_Witness ==
    /\ pc = "progress" /\ i \in outfiles
    /\ Len(template.body) = 3
    /\ IsSectPr(template.body[1]) /\ ~IsSectPr(template.body[2])
    /\ IsSectPr(template.body[3])
    /\ Len(sect) = 2
    /\ Len(body) >= 1

\* C17: for a `# `, `## ` or `### ` line the text rebuild emits, before any
\* configured numbering strip, is the stripped line without its leading
\* marker and nothing else removed: a later `# `, `## ` or `### ` inside
\* the text is kept.
C17_MarkerStripping ==
    \A k \in 1..Len(calls) :
        LET c == calls[k]
            line == StrippedLine(c.line)
        IN /\ c.branch = "title" => c.text = From(line, Len(TitleMark))
           /\ c.branch = "part" => c.text = From(line, Len(PartMark))
           /\ c.branch = "article"
              => c.text = clean_heading_label(options, From(line, Len(ArticleMark)))

\* a run_batch thread exists and has not ended
Worker1Active == pc \notin {"idle", "done", "dead"}
Worker2Active == worker2 \in {"begin", "run"}

\* C18: at most one run_batch worker is active at any time: once
\* start_processing has started a worker, no interleaving of clicks and
\* worker steps starts a second one before the first has ended.
C18_OneWorker == ~(Worker1Active /\ Worker2Active)

\* C19: every run_batch execution that has disabled the run button
\* re-enables it in the end, on every path: the button never stays
\* disabled.
C19_ButtonReenabled == (run_btn = "disabled") ~> (run_btn = "normal")

\* the paragraphs of the master document that are not blank after trimming
\* and not filtered, in the order of the document
Survivors ==
    SelectSeq(src.paras, LAMBDA p : Strip(p.text) # <<>> /\ ~FilteredTrimmed(p))

\* the text of the output paragraph of a source paragraph of trimmed text
\* t: t, without its label where the options say so
OutputText(t) ==
    CASE Classify(t).kind = "ArticleHeader" -> clean_heading_label(options, t)
      [] Classify(t).kind = "ListItem" -> clean_list_label(options, t)
      [] OTHER -> t

\* C20: extract then rebuild emits exactly one output paragraph for each
\* source paragraph that is not blank after trimming and not filtered,
\* none for the others, in the order of the document.
C20_OneInOneOut ==
    (pc = "progress" /\ i \in outfiles)
    => /\ Len(body) = Len(Survivors)
       /\ \A k \in 1..Len(body) : body[k].text = OutputText(Strip(Survivors[k].text))

====
